---- MODULE Spec2Model ----
(***************************************************************************)
(* picture_bot_tg: a Telegram bot that sends non-repeating images from a   *)
(* pool to a channel, from a repeating job (scheduled_send) and from       *)
(* operator commands (cmd_send_now, cmd_reset_history).                    *)
(*                                                                         *)
(* Two coroutines share the module globals of main.py on one asyncio       *)
(* event loop: "job" (the job-queue callback scheduled_send, armed by      *)
(* setup_schedule) and "upd" (the update handler; updates are handled one  *)
(* at a time).  A coroutine gives up the loop only where it awaits         *)
(* network I/O: in send_image that is bot.send_photo (main.py:127), which  *)
(* lies between get_random_image (main.py:111) and add_image               *)
(* (main.py:129).  Everything else in a handler runs without interruption; *)
(* _save_history is nevertheless split into its writes, because a crash of *)
(* the process can fall between them.                                      *)
(***************************************************************************)
EXTENDS Integers, Sequences, FiniteSets, TLC

\* ---------------------------------------------------------------- bounds
\* Item identifiers are 1..MaxImages (file paths / Drive names, opaque).
MaxImages == 2
\* The per-run delivery count of an identifier saturates here (a history
\* variable: 2 already means "more than once").
MaxCount == 2

\* -------------------------------------------------------- program values
DEFAULT_START_HOUR == 9
DEFAULT_END_HOUR == 21
LAST_HOUR == 23
\* main.current_send_interval as the module sets it, minutes.
DEFAULT_INTERVAL == 60
\* The delay of the job's first run (first=60, seconds), minutes.
FIRST_RUN == 1
\* The intervals the interval keyboard offers (interval_map), minutes.
Intervals == {15, 30, 45, 60}
\* next_run_in when no run of the job is to come: setup_schedule has not
\* been called, or the job is over (run_once).
Unarmed == 0 - 1
\* The values START_HOUR and END_HOUR are given in the environment: the
\* hours of the day and one beyond at each end.
HourSettings == (0 - 1)..(LAST_HOUR + 1)

Images == 1..MaxImages
Hours == 0..LAST_HOUR
Procs == {"job", "upd"}
NoImage == 0

\* The working-hours window the process is started with: the defaults of
\* config.py.
ConfigChoices == {<<DEFAULT_START_HOUR, DEFAULT_END_HOUR>>}
SourceChoices == {"local", "google_drive"}

VARIABLES
  START_HOUR,        \* Config.START_HOUR
  END_HOUR,          \* Config.END_HOUR
  IMAGE_SOURCE,      \* Config.IMAGE_SOURCE
  available_images,  \* main.available_images: the pool, a list
  sent_images,       \* history_manager.sent_images: the in-memory History
  history_file,      \* sent_history.json: [exists, text]
  pc,                \* where each coroutine is
  image_name,        \* send_image's local image_name, per coroutine
  io,                \* the _save_history call in progress, if any
  delivered,         \* history: successful send_photo calls per id since
                     \* the History was last loaded or reset
  successes,         \* history: send_image calls that returned True since
                     \* the History was last loaded, reset or cut
  snap,              \* history: the History, in memory and as a load of
                     \* the file gives it, when the dispatch in flight
                     \* began, and whether reset_history ran since, per
                     \* coroutine
  output,            \* what the last step logged / replied
  folder,            \* the identifiers the image source lists now
  current_send_interval,  \* main.current_send_interval, minutes
  job_interval,      \* the interval of the repeating job, minutes
  next_run_in,       \* minutes until the job's next run time
  armed,             \* history: the wait the pending run was armed with
  waited,            \* history: minutes since the pending run was armed
  now_hour           \* datetime.now().hour, NoHour where the clock is
                     \* left out

vars == <<START_HOUR, END_HOUR, IMAGE_SOURCE, available_images, sent_images,
          history_file, pc, image_name, io, delivered, successes, snap,
          output, folder, current_send_interval, job_interval, next_run_in,
          armed, waited, now_hour>>

config == <<START_HOUR, END_HOUR, IMAGE_SOURCE, available_images>>

\* What the process finds and does not change: its configuration and
\* pool, the files of the source, the hour of the wall clock.
world == <<config, folder, now_hour>>

\* The repeating job of the job queue and the interval the operator sets.
schedule == <<current_send_interval, job_interval, next_run_in, armed,
              waited>>

\* ------------------------------------------------------------ sequences
Range(s) == {s[i] : i \in 1..Len(s)}

Injective(s) == \A i, j \in 1..Len(s) : s[i] = s[j] => i = j

\* The list holding the elements of S once each, in ascending order.  The
\* program's lists (the directory listing, list(a_set)) come in an order it
\* does not choose and never looks at: the pool is only filtered and drawn
\* from at random, and the saved list is read back into a set.
ListOf(S) ==
  CHOOSE s \in [1..Cardinality(S) -> S] :
    /\ Injective(s)
    /\ \A i, j \in 1..Len(s) : i < j => s[i] < s[j]

\* The pools load_images can produce: non-empty (main returns when the list
\* is empty), one entry per file.
PoolChoices == {ListOf(S) : S \in (SUBSET Images) \ {{}}}

\* The pools the process is started with: one of each size.  The program
\* treats an identifier as an opaque name, so which names a pool of a given
\* size holds makes no difference; the record may still name any of them.
StartPools == {ListOf(1..k) : k \in 1..MaxImages}

\* ------------------------------------------------- the durable record
\* The text of sent_history.json as a sequence of JSON tokens.
Tok(k, v) == [k |-> k, v |-> v]

\* json.dump(data, f) for data = {'images': [...], 'last_updated': ...,
\* 'total_count': n}, in the pieces it is written in:
\*   head   {"images": [
\*   str    one identifier of the list
\*   tail   ], "last_updated": "...", "total_count": n}
json_dump(images, total_count) ==
  <<Tok("head", 0)>>
    \o [i \in 1..Len(images) |-> Tok("str", images[i])]
    \o <<Tok("tail", total_count)>>

\* A JSON array of strings (the record of the bot's first versions).
IsArray(t) ==
  /\ Len(t) >= 2
  /\ t[1].k = "["
  /\ t[Len(t)].k = "]"
  /\ \A i \in 2..(Len(t) - 1) : t[i].k = "str"

ArrayItems(t) == [i \in 1..(Len(t) - 2) |-> t[i + 1].v]

\* A JSON object with the three keys _save_history writes.
IsObject(t) ==
  /\ Len(t) >= 2
  /\ t[1].k = "head"
  /\ t[Len(t)].k = "tail"
  /\ \A i \in 2..(Len(t) - 1) : t[i].k = "str"

\* Other documents a damaged or foreign file can hold, one token each:
\*   num       a number, true, false or null
\*   obj       an object without the key images
\*   obj_num   an object whose images is a number or null
\*   bad_utf8  bytes that are no UTF-8 text
OtherDocuments == {"num", "obj", "obj_num", "bad_utf8"}

IsOther(t) == Len(t) = 1 /\ t[1].k \in OtherDocuments

\* Mutant of json_load: the array of the first versions is not read.
json_load_dict_only(t) ==
  IF IsObject(t)
    THEN [err |-> "none", dict |-> TRUE, list |-> TRUE,
          items |-> ArrayItems(t)]
  ELSE [err |-> "JSONDecodeError", dict |-> FALSE, list |-> FALSE,
        items |-> <<>>]

\* json.load(f) and what _load_history takes from the data
\* (history.py:30-35): err is the exception of json.load, dict is
\* isinstance(data, dict), items is data.get('images', []) of a dict and
\* the data itself otherwise, list tells that items is a list.
json_load(t) ==
  IF IsObject(t)
    THEN [err |-> "none", dict |-> TRUE, list |-> TRUE,
          items |-> ArrayItems(t)]
  ELSE IF IsArray(t)
    THEN [err |-> "none", dict |-> FALSE, list |-> TRUE,
          items |-> ArrayItems(t)]
  ELSE IF IsOther(t) /\ t[1].k = "obj"
    THEN [err |-> "none", dict |-> TRUE, list |-> TRUE, items |-> <<>>]
  ELSE IF IsOther(t) /\ t[1].k = "obj_num"
    THEN [err |-> "none", dict |-> TRUE, list |-> FALSE, items |-> <<>>]
  ELSE IF IsOther(t) /\ t[1].k = "num"
    THEN [err |-> "none", dict |-> FALSE, list |-> FALSE, items |-> <<>>]
  ELSE IF IsOther(t) /\ t[1].k = "bad_utf8"
    THEN [err |-> "UnicodeDecodeError", dict |-> FALSE, list |-> FALSE,
          items |-> <<>>]
  ELSE [err |-> "JSONDecodeError", dict |-> FALSE, list |-> FALSE,
        items |-> <<>>]

\* The exception _load_history lets through (history.py:38 catches
\* json.JSONDecodeError and IOError only): "none" when it returns.
\* set(x) of a number or of None raises TypeError.
load_raises(f) ==
  IF ~f.exists \/ ~f.readable THEN "none"
  ELSE LET data == json_load(f.text)
       IN  IF data.err = "UnicodeDecodeError" THEN data.err
           ELSE IF data.err = "none" /\ ~data.list THEN "TypeError"
           ELSE "none"

\* HistoryManager._load_history, when it returns
load_history(f) ==
  IF ~f.exists \/ ~f.readable THEN {}
  ELSE LET data == json_load(f.text)
       IN  IF data.err = "none" THEN Range(data.items) ELSE {}

NoFile == [exists |-> FALSE, readable |-> TRUE, text |-> <<>>]
FileOf(text) == [exists |-> TRUE, readable |-> TRUE, text |-> text]
\* A file open(history_file, 'r') raises IOError for.
Unreadable == [exists |-> TRUE, readable |-> FALSE, text |-> <<>>]

\* The records a previous run can have left behind: none, or one written
\* by _save_history for some set of identifiers.
InitialFiles ==
  {NoFile} \cup
  {FileOf(json_dump(ListOf(S), Cardinality(S))) : S \in SUBSET Images}

\* ----------------------------------------------------------- selection
\* HistoryManager.is_sent
is_sent(hist, img) == img \in hist

\* Mutant of get_unsent_images: the test is inverted.
get_unsent_images_inverted(hist, images) ==
  SelectSeq(images, LAMBDA img : is_sent(hist, img))

\* HistoryManager.get_unsent_images: the sub-list of the unsent ones
get_unsent_images(hist, images) ==
  SelectSeq(images, LAMBDA img : ~is_sent(hist, img))

\* Mutant of get_random_image: the draw is from the whole pool.
get_random_image_any(hist, images) ==
  IF Len(get_unsent_images(hist, images)) = 0
    THEN {NoImage}
    ELSE Range(images)

\* get_random_image: the values it can return; NoImage stands for None.
get_random_image(hist, images) ==
  LET unsent_images == get_unsent_images(hist, images)
  IN  IF Len(unsent_images) = 0 THEN {NoImage} ELSE Range(unsent_images)

\* ------------------------------------------------------- bookkeeping
\* The _save_history call in progress: the caller's operation and
\* coroutine, the text still to write, the in-memory History before the
\* operation, what a load of the file gave before it was opened, and
\* reset_history's old_count.
IoIdle ==
  [op |-> "none", p |-> "none", rest |-> <<>>, before |-> {}, disk0 |-> {},
   n |-> 0]

\* The History as a dispatch finds it when it begins: in memory, and as a
\* load of the file gives it.
NoSnap == [hist |-> {}, disk |-> {}, reset |-> FALSE]

Snapshot ==
  [hist |-> sent_images, disk |-> load_history(history_file),
   reset |-> FALSE]

\* snap once operation op has acted on the History: a reset is noted in
\* the snapshot of the dispatch that is waiting for send_photo.
Noted(op) ==
  [q \in Procs |->
     IF op = "reset" /\ pc[q] = "send_photo"
       THEN [snap[q] EXCEPT !.reset = TRUE]
       ELSE snap[q]]

\* No hour of the day: the value of output.hour in a step that is no tick.
NoHour == LAST_HOUR + 1

\* None, where a number can stand too.
NoneValue == 0 - 1

\* What a step logs or replies; the fields a step does not use keep these
\* values.  n: the count reset_history returned; before: the in-memory
\* History before the add/reset/remove; ok: the write succeeded; ret: what
\* add_image or reset_history returned to its caller; result: what
\* send_image returned, "none" when it did not return in this step;
\* removed: what remove_image returned; cleanup: how os.remove of the
\* downloaded copy went, "none" when it was not called.
NoOutput ==
  [e |-> "none", p |-> "none", hour |-> NoHour, image |-> NoImage, n |-> 0,
   before |-> {}, ok |-> TRUE, ret |-> NoneValue, result |-> "none",
   removed |-> FALSE, cleanup |-> "none"]

\* One more successful delivery of an identifier.
Bump(c) == IF c < MaxCount THEN c + 1 ELSE c

TypeOK ==
  /\ START_HOUR \in HourSettings /\ END_HOUR \in HourSettings
  /\ IMAGE_SOURCE \in SourceChoices \cup {"other"}
  /\ available_images \in PoolChoices \cup {<<>>}
  /\ sent_images \subseteq Images
  /\ history_file.exists \in BOOLEAN
  /\ history_file.readable \in BOOLEAN
  /\ pc \in [Procs -> {"off", "idle", "send_photo", "saving"}]
  /\ image_name \in [Procs -> Images \cup {NoImage}]
  /\ io.op \in {"none", "add", "reset", "remove"}
  /\ delivered \in [Images -> 0..MaxCount]
  /\ successes \in Nat
  /\ folder \subseteq Images
  /\ current_send_interval \in Intervals
  /\ job_interval \in Intervals
  /\ next_run_in \in 0..DEFAULT_INTERVAL \cup {Unarmed}
  /\ armed \in Intervals \cup {FIRST_RUN}
  /\ waited \in 0..DEFAULT_INTERVAL
  /\ now_hour \in Hours \cup {NoHour}

\* ------------------------------------------------------------- startup
\* The state once main() has armed the job queue: history_manager was
\* built at import (main.py:24), Config.is_valid passed, load_images
\* filled available_images.
Init ==
  /\ \E c \in ConfigChoices : START_HOUR = c[1] /\ END_HOUR = c[2]
  /\ IMAGE_SOURCE \in SourceChoices
  /\ available_images \in StartPools
  /\ history_file \in InitialFiles
  /\ sent_images = load_history(history_file)
  /\ pc = [p \in Procs |-> "idle"]
  /\ image_name = [p \in Procs |-> NoImage]
  /\ io = IoIdle
  /\ delivered = [i \in Images |-> 0]
  /\ successes = 0
  /\ snap = [p \in Procs |-> NoSnap]
  /\ output = NoOutput
  /\ folder = Range(available_images)
  /\ current_send_interval = DEFAULT_INTERVAL
  /\ job_interval = DEFAULT_INTERVAL
  /\ next_run_in = FIRST_RUN
  /\ armed = FIRST_RUN
  /\ waited = 0
  /\ now_hour = NoHour

\* ------------------------------------------------------------ schedule
\* A run of the repeating job is armed to come after `wait` minutes.
Arm(wait) ==
  /\ next_run_in' = wait
  /\ armed' = wait
  /\ waited' = 0

\* setup_schedule (main.py:386-403): run_repeating with the interval read
\* from current_send_interval now, and the first run after FIRST_RUN.
setup_schedule(interval) ==
  /\ job_interval' = interval
  /\ Arm(FIRST_RUN)

\* ------------------------------------------------------------ dispatch
\* send_image returns False before anything was sent (main.py:113-122,
\* 142-150).
ReturnFalse(p, why, img, hour) ==
  /\ output' = [NoOutput EXCEPT !.e = why, !.p = p, !.hour = hour,
                                !.image = img, !.result = "False"]
  /\ UNCHANGED <<pc, image_name, snap>>

\* send_image up to its first suspension, `await bot.send_photo`
\* (main.py:110-127).  The item is drawn from available_images as main()
\* filled it; the file is opened (or downloaded) only if the source still
\* has it.
send_image(p, hour) ==
  /\ \E img \in get_random_image(sent_images, available_images) :
       IF img = NoImage
         THEN ReturnFalse(p, "exhausted", NoImage, hour)
         ELSE \/ /\ IMAGE_SOURCE = "google_drive"
                 /\ ReturnFalse(p, "fetch_failed", img, hour)
              \/ /\ IMAGE_SOURCE = "local"
                 /\ ReturnFalse(p, "open_failed", img, hour)
              \/ /\ img \in folder
                 /\ pc' = [pc EXCEPT ![p] = "send_photo"]
                 /\ image_name' = [image_name EXCEPT ![p] = img]
                 /\ snap' = [snap EXCEPT ![p] = Snapshot]
                 /\ output' = [NoOutput EXCEPT !.e = "send_photo", !.p = p,
                                               !.hour = hour, !.image = img]
  /\ UNCHANGED <<sent_images, history_file, io, delivered, successes>>

\* Mutant of outside_working_hours: the end of the window is let through.
outside_working_hours_late(current_hour) ==
  current_hour < START_HOUR \/ current_hour > END_HOUR

\* The working-hours gate of scheduled_send (main.py:340).
outside_working_hours(current_hour) ==
  current_hour < START_HOUR \/ current_hour >= END_HOUR

\* scheduled_send: one run of the repeating job at local hour current_hour.
\* The job queue does not start a run while the previous one is unfinished.
scheduled_send(current_hour) ==
  /\ pc["job"] = "idle"
  /\ io.op = "none"
  /\ IF outside_working_hours(current_hour)
       THEN /\ output' = [NoOutput EXCEPT !.e = "skipped", !.p = "job",
                                          !.hour = current_hour]
            /\ UNCHANGED <<sent_images, history_file, pc, image_name, io,
                           delivered, successes, snap>>
       ELSE send_image("job", current_hour)
  /\ UNCHANGED <<world>>

\* Mutant of cmd_send_now: outside the working hours it sends nothing.
cmd_send_now_gated ==
  /\ pc["upd"] = "idle"
  /\ io.op = "none"
  /\ IF \/ Len(get_unsent_images(sent_images, available_images)) = 0
        \/ outside_working_hours(now_hour)
       THEN /\ output' = [NoOutput EXCEPT !.e = "nothing_to_send",
                                          !.p = "upd"]
            /\ UNCHANGED <<sent_images, history_file, pc, image_name, io,
                           delivered, successes, snap>>
       ELSE send_image("upd", NoHour)
  /\ UNCHANGED <<world, schedule>>

\* cmd_send_now (main.py:244-268), up to send_image's suspension.
cmd_send_now ==
  /\ pc["upd"] = "idle"
  /\ io.op = "none"
  /\ IF Len(get_unsent_images(sent_images, available_images)) = 0
       THEN /\ output' = [NoOutput EXCEPT !.e = "nothing_to_send",
                                          !.p = "upd"]
            /\ UNCHANGED <<sent_images, history_file, pc, image_name, io,
                           delivered, successes, snap>>
       ELSE send_image("upd", NoHour)
  /\ UNCHANGED <<world, schedule>>

\* ------------------------------------------------------- _save_history
\* How the removal of the downloaded copy can go (main.py:134-138):
\* there is one only for Google Drive.
CleanupOutcomes ==
  IF IMAGE_SOURCE = "google_drive" THEN {"ok", "failed"} ELSE {"none"}

\* Mutant of AfterSave: a failed cleanup makes send_image return False.
AfterSave_cleanup_fatal(op, p, before, n, ok) ==
  /\ pc' = [pc EXCEPT ![p] = "idle"]
  /\ image_name' = [image_name EXCEPT ![p] = NoImage]
  /\ snap' = [Noted(op) EXCEPT ![p] = NoSnap]
  /\ IF op = "add"
       THEN /\ successes' = successes + 1
            /\ \E c \in CleanupOutcomes :
                 output' = [NoOutput EXCEPT !.e = "sent", !.p = p,
                                            !.image = image_name[p],
                                            !.before = before, !.ok = ok,
                                            !.ret = NoneValue,
                                            !.result =
                                              IF c = "failed"
                                                THEN "False"
                                                ELSE "True",
                                            !.cleanup = c]
       ELSE IF op = "reset"
       THEN /\ successes' = 0
            /\ output' = [NoOutput EXCEPT !.e = "reset", !.p = p,
                                          !.n = n,
                                          !.before = before, !.ok = ok,
                                          !.ret = n]
       ELSE /\ successes' = 0
            /\ output' = [NoOutput EXCEPT !.e = "removed", !.p = p,
                                          !.image = n,
                                          !.before = before, !.ok = ok,
                                          !.removed = TRUE]

\* What the caller of _save_history does once it is over (it never
\* raises to them: IOError is caught at history.py:53).
\*   add:   send_image logs, cleans the cache and returns True
\*          (main.py:130-140)
\*   reset: reset_history returns old_count, cmd_reset_history replies
\*          (history.py:83-84, main.py:222)
\*   remove: remove_image returns True (history.py:91-92); n is the
\*          identifier it removed
AfterSave(op, p, before, n, ok) ==
  /\ pc' = [pc EXCEPT ![p] = "idle"]
  /\ image_name' = [image_name EXCEPT ![p] = NoImage]
  /\ snap' = [Noted(op) EXCEPT ![p] = NoSnap]
  /\ IF op = "add"
       THEN /\ successes' = successes + 1
            /\ \E c \in CleanupOutcomes :
                 output' = [NoOutput EXCEPT !.e = "sent", !.p = p,
                                            !.image = image_name[p],
                                            !.before = before, !.ok = ok,
                                            !.ret = NoneValue,
                                            !.result = "True",
                                            !.cleanup = c]
       ELSE IF op = "reset"
       THEN /\ successes' = 0
            /\ output' = [NoOutput EXCEPT !.e = "reset", !.p = p,
                                          !.n = n,
                                          !.before = before, !.ok = ok,
                                          !.ret = n]
       ELSE /\ successes' = 0
            /\ output' = [NoOutput EXCEPT !.e = "removed", !.p = p,
                                          !.image = n,
                                          !.before = before, !.ok = ok,
                                          !.removed = TRUE]

\* Mutant of save_data: the count is the one of the set before the
\* operation.
save_data_counted_before(images) ==
  json_dump(ListOf(images), Cardinality(sent_images))

\* The data _save_history builds (history.py:45-49) for the set `images`,
\* as the text json.dump will write.
save_data(images) == json_dump(ListOf(images), Cardinality(images))

\* _save_history up to the end of open(history_file, 'w') (history.py:50):
\* open raises IOError and the file stays as it was, or it truncates the
\* file and the writes follow.
save_history(op, p, before, n, images) ==
  \/ /\ UNCHANGED <<history_file, io>>
     /\ AfterSave(op, p, before, n, FALSE)
  \/ /\ io' = [op |-> op, p |-> p, rest |-> save_data(images),
                 before |-> before, disk0 |-> load_history(history_file),
                 n |-> n]
     /\ history_file' = FileOf(<<>>)
     /\ pc' = [pc EXCEPT ![p] = "saving"]
     /\ output' = [NoOutput EXCEPT !.e = "open", !.p = p]
     /\ snap' = Noted(op)
     /\ successes' = (IF op = "add" THEN successes ELSE 0)
     /\ UNCHANGED image_name

\* json.dump writes the next piece of the text (history.py:51); after the
\* last one the file is closed and the caller goes on.
write_step ==
  /\ io.op # "none"
  /\ history_file' = FileOf(Append(history_file.text, Head(io.rest)))
  /\ IF Len(io.rest) = 1
       THEN /\ io' = IoIdle
            /\ AfterSave(io.op, io.p, io.before, io.n, TRUE)
       ELSE /\ io' = [io EXCEPT !.rest = Tail(io.rest)]
            /\ output' = [NoOutput EXCEPT !.e = "write", !.p = io.p]
            /\ UNCHANGED <<pc, image_name, snap, successes>>
  /\ UNCHANGED <<world, schedule, sent_images, delivered>>

\* Mutant of write_fail: the identifier is taken back from the set.
write_fail_rolled_back ==
  /\ io.op # "none"
  /\ io' = IoIdle
  /\ AfterSave(io.op, io.p, io.before, io.n, FALSE)
  /\ sent_images' = io.before
  /\ UNCHANGED <<world, schedule, history_file, delivered>>

\* A write raises IOError (disk full, ...): the file keeps what was written
\* so far, the error is logged and the caller goes on.
write_fail ==
  /\ io.op # "none"
  /\ io' = IoIdle
  /\ AfterSave(io.op, io.p, io.before, io.n, FALSE)
  /\ UNCHANGED <<world, schedule, sent_images, history_file,
                 delivered>>

\* Mutant of add_image: the file is written before the set is updated.
add_image_saved_first(p, img) ==
  /\ sent_images' = sent_images \cup {img}
  /\ save_history("add", p, sent_images, 0, sent_images)

\* HistoryManager.add_image (history.py:56-60)
add_image(p, img) ==
  /\ sent_images' = sent_images \cup {img}
  /\ save_history("add", p, sent_images, 0, sent_images \cup {img})

\* bot.send_photo returned: send_image goes on to add_image (main.py:127-129).
send_photo_ok(p) ==
  /\ pc[p] = "send_photo"
  /\ io.op = "none"
  /\ delivered' = [delivered EXCEPT ![image_name[p]] = Bump(@)]
  /\ add_image(p, image_name[p])
  /\ UNCHANGED <<world, schedule>>

\* Mutant of send_photo_fail: the item is recorded although the send failed.
send_photo_fail_recorded(p) ==
  /\ pc[p] = "send_photo"
  /\ io.op = "none"
  /\ pc' = [pc EXCEPT ![p] = "idle"]
  /\ image_name' = [image_name EXCEPT ![p] = NoImage]
  /\ snap' = [snap EXCEPT ![p] = NoSnap]
  /\ sent_images' = sent_images \cup {image_name[p]}
  /\ output' = [NoOutput EXCEPT !.e = "delivery_failed", !.p = p,
                                !.image = image_name[p],
                                !.result = "False"]
  /\ UNCHANGED <<world, schedule, history_file, io, delivered,
                 successes>>

\* bot.send_photo raised TelegramError: send_image returns False
\* (main.py:142-144).
send_photo_fail(p) ==
  /\ pc[p] = "send_photo"
  /\ io.op = "none"
  /\ pc' = [pc EXCEPT ![p] = "idle"]
  /\ image_name' = [image_name EXCEPT ![p] = NoImage]
  /\ snap' = [snap EXCEPT ![p] = NoSnap]
  /\ output' = [NoOutput EXCEPT !.e = "delivery_failed", !.p = p,
                                !.image = image_name[p],
                                !.result = "False"]
  /\ UNCHANGED <<world, schedule, sent_images, history_file, io,
                 delivered, successes>>

\* Mutant of reset_history: the count is taken after the set is cleared.
reset_history_counted_late(p) ==
  LET old_count == Cardinality({})
  IN  /\ sent_images' = {}
      /\ save_history("reset", p, sent_images, old_count, {})

\* HistoryManager.reset_history (history.py:78-84)
reset_history(p) ==
  LET old_count == Cardinality(sent_images)
  IN  /\ sent_images' = {}
      /\ save_history("reset", p, sent_images, old_count, {})

\* cmd_reset_history (main.py:219-226)
cmd_reset_history ==
  /\ pc["upd"] = "idle"
  /\ io.op = "none"
  /\ delivered' = [i \in Images |-> 0]
  /\ reset_history("upd")
  /\ UNCHANGED <<world, schedule>>

\* The process dies (at any point) and is started again: HistoryManager()
\* loads the file, main() arms the job queue anew.  An exception of
\* _load_history ends the import of main.py (main.py:24): no process runs.
Restart ==
  /\ sent_images' = load_history(history_file)
  /\ pc' = [p \in Procs |->
              IF load_raises(history_file) = "none" THEN "idle" ELSE "off"]
  /\ image_name' = [p \in Procs |-> NoImage]
  /\ io' = IoIdle
  /\ delivered' = [i \in Images |-> 0]
  /\ successes' = 0
  /\ snap' = [p \in Procs |-> NoSnap]
  /\ output' = [NoOutput EXCEPT
                  !.e = IF load_raises(history_file) = "none"
                          THEN "started" ELSE load_raises(history_file)]
  /\ current_send_interval' = DEFAULT_INTERVAL
  /\ setup_schedule(DEFAULT_INTERVAL)
  /\ UNCHANGED <<world, history_file>>

\* A run of the job at some moment: the clock is left out, a run can come
\* at any time.
tick ==
  /\ \E current_hour \in Hours : scheduled_send(current_hour)
  /\ UNCHANGED schedule

Next ==
  \/ tick
  \/ cmd_send_now
  \/ \E p \in Procs : send_photo_ok(p)
  \/ \E p \in Procs : send_photo_fail(p)
  \/ write_step
  \/ write_fail
  \/ cmd_reset_history
  \/ Restart

Spec == Init /\ [][Next]_vars

\* The scenarios of the operator alone: every dispatch is a send-now
\* command on an empty History, so one dispatch ends before the next begins.
InitScenario ==
  /\ Init
  /\ history_file = NoFile

NextScenario ==
  \/ cmd_send_now
  \/ send_photo_ok("upd")
  \/ write_step
  \/ write_fail
  \/ cmd_reset_history

SpecScenario == InitScenario /\ [][NextScenario]_vars

\* --------------------------------------------------------- remove_image
\* HistoryManager.remove_image (history.py:86-93)
remove_image(p, img) ==
  IF img \in sent_images
    THEN /\ sent_images' = sent_images \ {img}
         /\ save_history("remove", p, sent_images, img, sent_images \ {img})
    ELSE /\ output' = [NoOutput EXCEPT !.e = "not_removed", !.p = p,
                                       !.image = img,
                                       !.before = sent_images,
                                       !.removed = FALSE]
         /\ UNCHANGED <<sent_images, history_file, io, pc, image_name,
                        snap, successes>>

\* A caller of remove_image (main.py has none): a handler names the
\* identifier to forget.
call_remove_image ==
  /\ pc["upd"] = "idle"
  /\ io.op = "none"
  /\ \E img \in Images : remove_image("upd", img)
  /\ UNCHANGED <<world, schedule, delivered>>

\* The operator's commands and removals on a full pool of local files.
InitRemove ==
  /\ Init
  /\ IMAGE_SOURCE = "local"
  /\ available_images = ListOf(Images)

NextRemove ==
  \/ call_remove_image
  \/ cmd_send_now
  \/ send_photo_ok("upd")
  \/ write_step
  \/ write_fail

SpecRemove == InitRemove /\ [][NextRemove]_vars

\* --------------------------------------------------- any file at start
\* The lists of identifiers a record of the first versions can hold.
LegacyLists ==
  UNION {[1..n -> Images] : n \in 0..MaxImages}

\* What the process can find in the place of sent_history.json when it
\* starts: nothing, a record of this version, a bare list of the first
\* versions, a cut-off text, another document, a file it may not read.
AnyFiles ==
  InitialFiles
    \cup {FileOf(<<Tok("[", 0)>> \o [i \in 1..Len(l) |-> Tok("str", l[i])]
                   \o <<Tok("]", 0)>>) : l \in LegacyLists}
    \cup {FileOf(<<Tok(k, 0)>>) : k \in OtherDocuments}
    \cup {FileOf(<<>>), FileOf(<<Tok("head", 0)>>), Unreadable}

\* No process yet, a full pool of local files, and any file.
InitLoad ==
  /\ \E c \in ConfigChoices : START_HOUR = c[1] /\ END_HOUR = c[2]
  /\ IMAGE_SOURCE = "local"
  /\ available_images = ListOf(Images)
  /\ history_file \in AnyFiles
  /\ sent_images = {}
  /\ pc = [p \in Procs |-> "off"]
  /\ image_name = [p \in Procs |-> NoImage]
  /\ io = IoIdle
  /\ delivered = [i \in Images |-> 0]
  /\ successes = 0
  /\ snap = [p \in Procs |-> NoSnap]
  /\ output = NoOutput
  /\ folder = Range(available_images)
  /\ current_send_interval = DEFAULT_INTERVAL
  /\ job_interval = DEFAULT_INTERVAL
  /\ next_run_in = FIRST_RUN
  /\ armed = FIRST_RUN
  /\ waited = 0
  /\ now_hour = NoHour

SpecLoad == InitLoad /\ [][Next]_vars

\* ------------------------------------------------ the source changes
\* Files are added to the image source or removed from it while the
\* process runs: it lists S now.
folder_changes(S) ==
  /\ S # folder
  /\ folder' = S
  /\ output' = [NoOutput EXCEPT !.e = "folder"]
  /\ UNCHANGED <<config, now_hour, schedule, sent_images, history_file, pc,
                 image_name, io, delivered, successes, snap>>

\* One run of the process on local files with no record, and a folder
\* that changes.
InitPool ==
  /\ Init
  /\ IMAGE_SOURCE = "local"
  /\ history_file = NoFile

NextPool ==
  \/ \E S \in SUBSET Images : folder_changes(S)
  \/ tick
  \/ cmd_send_now
  \/ \E p \in Procs : send_photo_ok(p)
  \/ \E p \in Procs : send_photo_fail(p)
  \/ write_step
  \/ write_fail
  \/ cmd_reset_history

SpecPool == InitPool /\ [][NextPool]_vars

\* ------------------------------------------------- the job on the clock
\* The steps the clock makes: to the next run of the job, or by the
\* shortest interval of the keyboard.
TimeSteps == {next_run_in, 15}

\* d minutes pass with the job waiting for its next run time.
time_passes(d) ==
  /\ d > 0
  /\ d <= next_run_in
  /\ next_run_in' = next_run_in - d
  /\ waited' = waited + d
  /\ output' = [NoOutput EXCEPT !.e = "time"]
  /\ UNCHANGED <<world, sent_images, history_file, pc, image_name,
                 io, delivered, successes, snap, current_send_interval,
                 job_interval, armed>>

\* Mutant of job_runs: the job was queued with run_once.
job_runs_once ==
  /\ next_run_in = 0
  /\ io.op = "none"
  /\ next_run_in' = Unarmed
  /\ armed' = job_interval
  /\ waited' = 0
  /\ UNCHANGED <<current_send_interval, job_interval>>
  /\ IF pc["job"] = "idle"
       THEN \E current_hour \in Hours : scheduled_send(current_hour)
       ELSE /\ output' = [NoOutput EXCEPT !.e = "missed", !.p = "job"]
            /\ UNCHANGED <<world, sent_images, history_file, pc,
                           image_name, io, delivered, successes, snap>>

\* The run time of the repeating job has come (run_repeating,
\* main.py:395-401): the job queue arms the next run job_interval later
\* and calls scheduled_send, unless the previous call is unfinished.
job_runs ==
  /\ next_run_in = 0
  /\ io.op = "none"
  /\ Arm(job_interval)
  /\ UNCHANGED <<current_send_interval, job_interval>>
  /\ IF pc["job"] = "idle"
       THEN \E current_hour \in Hours : scheduled_send(current_hour)
       ELSE /\ output' = [NoOutput EXCEPT !.e = "missed", !.p = "job"]
            /\ UNCHANGED <<world, sent_images, history_file, pc,
                           image_name, io, delivered, successes, snap>>

\* Mutant of handle_message: the pending run is moved to the new interval.
handle_message_rescheduled(v) ==
  /\ pc["upd"] = "idle"
  /\ io.op = "none"
  /\ current_send_interval' = v
  /\ next_run_in' = v
  /\ output' = [NoOutput EXCEPT !.e = "interval_changed", !.p = "upd",
                                !.n = v]
  /\ UNCHANGED <<world, sent_images, history_file, pc, image_name,
                 io, delivered, successes, snap, job_interval, armed, waited>>

\* handle_message, the interval selection (main.py:313-326): the button
\* pressed gives v.
handle_message(v) ==
  /\ pc["upd"] = "idle"
  /\ io.op = "none"
  /\ current_send_interval' = v
  /\ output' = [NoOutput EXCEPT !.e = "interval_changed", !.p = "upd",
                                !.n = v]
  /\ UNCHANGED <<world, sent_images, history_file, pc, image_name,
                 io, delivered, successes, snap, job_interval, next_run_in,
                 armed, waited>>

\* The job on the clock with a full pool of local files and no record,
\* and the operator choosing intervals.
InitSchedule ==
  /\ Init
  /\ IMAGE_SOURCE = "local"
  /\ available_images = ListOf(Images)
  /\ history_file = NoFile

NextSchedule ==
  \/ \E d \in TimeSteps : time_passes(d)
  \/ job_runs
  \/ \E v \in Intervals : handle_message(v)
  \/ send_photo_ok("job")
  \/ send_photo_fail("job")
  \/ write_step
  \/ write_fail

SpecSchedule == InitSchedule /\ [][NextSchedule]_vars

\* Time goes on, a run that is due is started, and a write that began
\* comes to its end.
SpecScheduleFair ==
  /\ SpecSchedule
  /\ WF_vars(\E d \in TimeSteps : time_passes(d))
  /\ WF_vars(job_runs)
  /\ WF_vars(write_step)

\* ------------------------------------------------- the hour of the day
\* The wall clock reaches the next hour.
hour_passes ==
  /\ now_hour' = (now_hour + 1) % (LAST_HOUR + 1)
  /\ output' = [NoOutput EXCEPT !.e = "hour"]
  /\ UNCHANGED <<config, folder, schedule, sent_images, history_file, pc,
                 image_name, io, delivered, successes, snap>>

\* A run of the job at the hour the wall clock shows (main.py:339).
tick_now ==
  /\ scheduled_send(now_hour)
  /\ UNCHANGED schedule

\* One run of the process on a full pool of local files with no record,
\* begun at any hour of the day.
InitHours ==
  /\ \E c \in ConfigChoices : START_HOUR = c[1] /\ END_HOUR = c[2]
  /\ IMAGE_SOURCE = "local"
  /\ available_images = ListOf(Images)
  /\ history_file = NoFile
  /\ sent_images = load_history(history_file)
  /\ pc = [p \in Procs |-> "idle"]
  /\ image_name = [p \in Procs |-> NoImage]
  /\ io = IoIdle
  /\ delivered = [i \in Images |-> 0]
  /\ successes = 0
  /\ snap = [p \in Procs |-> NoSnap]
  /\ output = NoOutput
  /\ folder = Range(available_images)
  /\ current_send_interval = DEFAULT_INTERVAL
  /\ job_interval = DEFAULT_INTERVAL
  /\ next_run_in = FIRST_RUN
  /\ armed = FIRST_RUN
  /\ waited = 0
  /\ now_hour \in Hours

NextHours ==
  \/ hour_passes
  \/ tick_now
  \/ cmd_send_now
  \/ \E p \in Procs : send_photo_ok(p)
  \/ \E p \in Procs : send_photo_fail(p)
  \/ write_step
  \/ write_fail

SpecHours == InitHours /\ [][NextHours]_vars

\* ---------------------------------------------------------- the start
\* Mutant of is_valid: END_HOUR may be one more.
is_valid_end_24(start_hour, end_hour, source) ==
  /\ source \in {"local", "google_drive"}
  /\ ~(start_hour < 0 \/ start_hour > LAST_HOUR)
  /\ ~(end_hour < 0 \/ end_hour > LAST_HOUR + 1)
  /\ ~(start_hour >= end_hour)

\* Config.is_valid (config.py:36-74): no error is appended.  The token,
\* the chat id, the paths and SEND_INTERVAL are taken as set.
is_valid(start_hour, end_hour, source) ==
  /\ source \in {"local", "google_drive"}
  /\ ~(start_hour < 0 \/ start_hour > LAST_HOUR)
  /\ ~(end_hour < 0 \/ end_hour > LAST_HOUR)
  /\ ~(start_hour >= end_hour)

\* main() leaves before setup_schedule: no process stays.
Leaves(why) ==
  /\ output' = [NoOutput EXCEPT !.e = why]
  /\ UNCHANGED <<pc, schedule>>

\* The start of the process: the import builds history_manager
\* (main.py:24), main() checks the configuration, loads the images and
\* arms the job (main.py:406-439).
main ==
  /\ pc = [p \in Procs |-> "off"]
  /\ sent_images' = load_history(history_file)
  /\ IF load_raises(history_file) # "none"
       THEN /\ Leaves(load_raises(history_file))
            /\ UNCHANGED available_images
     ELSE IF ~is_valid(START_HOUR, END_HOUR, IMAGE_SOURCE)
       THEN /\ Leaves("config_invalid")
            /\ UNCHANGED available_images
     ELSE \/ /\ folder = {}
             /\ available_images' = <<>>
             /\ Leaves("load_images_failed")
          \/ /\ IMAGE_SOURCE = "google_drive"
             /\ Leaves("load_images_failed")
             /\ UNCHANGED available_images
          \/ /\ folder # {}
             /\ available_images' = ListOf(folder)
             /\ pc' = [p \in Procs |-> "idle"]
             /\ current_send_interval' = DEFAULT_INTERVAL
             /\ setup_schedule(DEFAULT_INTERVAL)
             /\ output' = [NoOutput EXCEPT !.e = "started"]
  /\ UNCHANGED <<START_HOUR, END_HOUR, IMAGE_SOURCE, folder, history_file,
                 image_name, io, delivered, successes, snap, now_hour>>

\* Before the start, with any setting of the hours and the source and
\* any folder.
InitStart ==
  /\ START_HOUR \in HourSettings
  /\ END_HOUR \in HourSettings
  /\ IMAGE_SOURCE \in SourceChoices \cup {"other"}
  /\ folder \in SUBSET Images
  /\ available_images = <<>>
  /\ history_file = NoFile
  /\ sent_images = {}
  /\ pc = [p \in Procs |-> "off"]
  /\ image_name = [p \in Procs |-> NoImage]
  /\ io = IoIdle
  /\ delivered = [i \in Images |-> 0]
  /\ successes = 0
  /\ snap = [p \in Procs |-> NoSnap]
  /\ output = NoOutput
  /\ current_send_interval = DEFAULT_INTERVAL
  /\ job_interval = DEFAULT_INTERVAL
  /\ next_run_in = Unarmed
  /\ armed = FIRST_RUN
  /\ waited = 0
  /\ now_hour = NoHour

NextStart ==
  \/ main
  \/ tick
  \/ send_photo_fail("job")

SpecStart == InitStart /\ [][NextStart]_vars

\* ------------------------------------------------------------ the claims
Unsent == Range(available_images) \ sent_images

\* A dispatch by p has selected its item and not yet finished recording it.
InFlight(p) ==
  pc[p] = "send_photo" \/ (pc[p] = "saving" /\ io.op = "add" /\ io.p = p)

\* C1: at most one dispatch is in flight at a time: a scheduled tick and a
\* send-now command are never both between selecting an item and the end of
\* their History update.
C1_OneDispatchInFlight == ~(InFlight("job") /\ InFlight("upd"))

\* C2: no identifier is successfully delivered more than once in one run of
\* the process without a reset.
C2_DeliveredAtMostOnce == \A i \in Images : delivered[i] <= 1

\* One step keeps C3: what enters sent_images, and what a delivery records.
C3_Step ==
  \A i \in Images :
    /\ (i \in sent_images' /\ i \notin sent_images)
         => (output'.e = "started" \/ delivered'[i] > delivered[i])
    /\ delivered'[i] > delivered[i] => i \in sent_images'
    /\ (output'.e = "sent" /\ output'.image = i) => i \in sent_images'

\* C3: an identifier enters the in-memory History only in a step in which a
\* delivery of it succeeded (or by the load at start), and every successful
\* delivery puts its identifier in the History, where it still is when the
\* dispatch returns True.
C3_HistoryIffDelivered == [][C3_Step]_vars

C3_Witness ==
  /\ output.e = "sent"
  /\ output.image \in sent_images
  /\ delivered[output.image] = 1
  /\ output.before # {}

\* One step keeps C4: a dispatch that fails at once, and one that fails
\* after its wait for send_photo.
C4_Step ==
  \A p \in Procs :
    /\ (output'.p = p /\ output'.e \in {"exhausted", "fetch_failed", "open_failed"})
         => /\ sent_images' = sent_images
            /\ load_history(history_file') = load_history(history_file)
            /\ output'.image = NoImage \/ output'.image \in Unsent'
    /\ (output'.p = p /\ output'.e = "delivery_failed" /\ pc[p] = "send_photo"
          /\ ~snap[p].reset)
         => /\ sent_images' = snap[p].hist
            /\ load_history(history_file') = snap[p].disk
            /\ output'.image \in Unsent'

\* C4: when a dispatch returns a failure, the History in memory and on disk
\* is what it was when the dispatch began, and the selected item is still
\* eligible.  (Stated for the dispatches during which no reset_history ran:
\* a reset changes the History by the operator's own command.)
C4_FailureLeavesHistory == [][C4_Step]_vars

\* C5: selection returns an identifier of the pool that is not in the
\* History, and returns None exactly when no such identifier exists; so does
\* the dispatch that has just selected, and the one that reported
\* exhaustion.
C5_SelectionCorrect ==
  LET chosen == get_random_image(sent_images, available_images)
  IN  /\ chosen # {}
      /\ \A img \in chosen : img = NoImage \/ img \in Unsent
      /\ NoImage \in chosen <=> Unsent = {}
      /\ output.e = "send_photo" => image_name[output.p] \in Unsent
      /\ output.e = "exhausted" => Unsent = {}

C5_Witness ==
  /\ output.e = "send_photo"
  /\ sent_images \cap Range(available_images) # {}
  /\ image_name[output.p] \in Unsent

\* C6: from an empty History, successive successful dispatches deliver each
\* item they record exactly once; after as many successes as the pool has
\* items nothing is unsent; a dispatch finds nothing to send only then, and
\* delivers nothing; and after reset_history every pool item is unsent.
C6_Scenario ==
  /\ \A i \in Images : delivered[i] = (IF i \in sent_images THEN 1 ELSE 0)
  /\ sent_images \subseteq Range(available_images)
  /\ ~InFlight("upd") => successes = Cardinality(sent_images)
  /\ successes = Len(available_images) => Unsent = {}
  /\ output.e \in {"nothing_to_send", "exhausted"}
       => /\ successes = Len(available_images)
          /\ pc["upd"] = "idle"
  /\ output.e = "reset" => Unsent = Range(available_images)

C6_Witness ==
  /\ output.e = "nothing_to_send"
  /\ successes = MaxImages
  /\ \A i \in Images : delivered[i] = 1

\* C7: while add_image's _save_history is at work, a fresh load of the file
\* gives the History of before the call or that of after it.
C7_SaveAllOrNothing ==
  io.op = "add"
    => load_history(history_file) \in {io.before, io.disk0, sent_images}

\* C8: after an add_image(x) whose write succeeded, a fresh load of the file
\* holds x and every identifier the History held before the add.
C8_RoundTrip ==
  (output.e = "sent" /\ output.ok)
    => /\ output.image \in load_history(history_file)
       /\ output.before \subseteq load_history(history_file)

C8_Witness ==
  /\ output.e = "sent"
  /\ output.ok
  /\ output.before # {}
  /\ output.image \notin output.before

\* C9: reset_history returns the size the History had, leaves it
\* empty in memory, and a fresh load of the file then gives the empty set.
C9_ResetAsStated ==
  output.e = "reset"
    => /\ output.n = Cardinality(output.before)
       /\ sent_images = {}
       /\ load_history(history_file) = {}

\* What holds of reset_history: it returns the size the History had and
\* leaves it empty in memory; when its write of the file succeeded, a
\* fresh load of the file gives the empty set.
C9_Reset ==
  output.e = "reset"
    => /\ output.n = Cardinality(output.before)
       /\ sent_images = {}
       /\ output.ok => load_history(history_file) = {}

C9_Witness ==
  /\ output.e = "reset"
  /\ output.ok
  /\ output.n = MaxImages

\* What the last tick did, against the hour it read.
C10_State ==
  /\ output.hour # NoHour
       => (output.e # "skipped"
             <=> (START_HOUR <= output.hour /\ output.hour < END_HOUR))
  /\ (output.hour # NoHour /\ START_HOUR = 9 /\ END_HOUR = 21)
       => /\ output.hour \in {8, 21} => output.e = "skipped"
          /\ output.hour \in {9, 20}
               => output.e \in {"send_photo", "exhausted", "fetch_failed",
                                "open_failed"}

\* A skipped tick changes nothing but the log.
C10_Step ==
  output'.e = "skipped"
    => UNCHANGED <<sent_images, history_file, delivered, pc, image_name, io>>

\* C10: a tick invokes send_image exactly when START_HOUR <= hour <
\* END_HOUR (so with 9 and 21: not at 8 nor 21, but at 9 and 20), and a
\* skipped tick selects nothing, delivers nothing and leaves the History as
\* it is.
C10_Gate == []C10_State /\ [][C10_Step]_vars

C10_Witness ==
  /\ output.e = "skipped"
  /\ output.hour = END_HOUR

\* The outcomes of a run time of the job: what scheduled_send logged, or
\* the run the job queue left out.
TickOutcomes ==
  {"skipped", "exhausted", "fetch_failed", "open_failed", "send_photo",
   "missed"}

\* The last step was a run time of the job.
Ticked == output.p = "job" /\ output.e \in TickOutcomes

\* C11: once the operator has changed the interval to v, the run armed
\* when the pending one fires comes v minutes later (the current interval),
\* not the interval setup_schedule read.
C11_NewIntervalNextCycle ==
  Ticked => armed = current_send_interval /\ next_run_in = armed

\* One step keeps C12: the interval selection leaves the pending run where
\* it is, and a run comes only when its whole wait is over.
C12_Step ==
  /\ current_send_interval' # current_send_interval
       => UNCHANGED <<next_run_in, armed, waited>>
  /\ Ticked' => next_run_in = 0 /\ waited = armed

\* C12: an interval change made while a run is pending does not move it:
\* the run comes when the wait it was armed with is over, neither earlier
\* nor later.
C12_PendingTickStays ==
  /\ [](next_run_in + waited = armed)
  /\ [][C12_Step]_vars

\* The interval went from 60 to 15 a quarter of an hour into the wait.
C12_Witness ==
  /\ output.e = "interval_changed"
  /\ current_send_interval = 15
  /\ armed = DEFAULT_INTERVAL
  /\ waited = 15
  /\ next_run_in = 45

\* C13: a scheduled send that failed or found nothing, or a run the gate
\* skipped, does not stop the job: after every outcome the next run is
\* armed, and runs come again and again.
C13_TicksForever ==
  /\ [](Ticked => next_run_in = job_interval /\ waited = 0)
  /\ []<>Ticked
  /\ (output.p = "job" /\ output.e = "delivery_failed") ~> Ticked

\* A scheduled send has just failed at send_photo.
C13_Witness ==
  /\ output.p = "job"
  /\ output.e = "delivery_failed"
  /\ next_run_in > 0

\* The file holds a whole record, of this version or of the first ones.
WellFormed(f) ==
  f.exists /\ f.readable /\ (IsObject(f.text) \/ IsArray(f.text))

\* C14: loading the History never fails: the process comes up whatever
\* the file holds, and with the empty set unless the file holds a whole
\* record.
C14_LoadNeverFails ==
  output.e \in {"started", "TypeError", "UnicodeDecodeError"}
    => /\ output.e = "started"
       /\ pc = [p \in Procs |-> "idle"]
       /\ ~WellFormed(history_file) => sent_images = {}

\* C20: a bare list of identifiers loads to the set the structured record
\* with that list as its images loads to, and none of them is selected
\* again.
C20_LegacyList ==
  (output.e = "started" /\ IsArray(history_file.text))
    => LET items == ArrayItems(history_file.text)
       IN  /\ sent_images
                = load_history(FileOf(json_dump(items, Len(items))))
           /\ sent_images = Range(items)
           /\ get_random_image(sent_images, available_images)
                \cap Range(items) = {}

\* The process started on a bare list that names an item twice.
C20_Witness ==
  /\ output.e = "started"
  /\ IsArray(history_file.text)
  /\ ~Injective(ArrayItems(history_file.text))
  /\ sent_images # {}

\* The last step ended an operation of the History, add_image or
\* reset_history.
Saved == output.e \in {"sent", "reset"}

\* What C15 says of the state an operation of the History ends in.
C15_State ==
  /\ (output.e = "sent" /\ ~output.ok)
       => /\ output.image \in sent_images
          /\ output.image \notin get_random_image(sent_images,
                                                   available_images)
          /\ pc[output.p] = "idle"
  /\ (Saved /\ output.ok) => load_history(history_file) = sent_images

\* What C15 says of a step: an identifier leaves the set by reset_history
\* only, or with the process.
C15_Step ==
  \A i \in Images :
    (i \in sent_images /\ i \notin sent_images')
      => \/ io'.op = "reset"
         \/ output'.e \in {"reset", "started"}

\* C15: when the write of add_image fails the identifier stays in the
\* in-memory History for the rest of the run and is not selected again,
\* the process goes on, and the next write that succeeds stores the whole
\* in-memory set.
C15_FailedWriteKeepsMemory == []C15_State /\ [][C15_Step]_vars

\* add_image's write failed: the identifier is in memory and not in the
\* file.
C15_Witness ==
  /\ output.e = "sent"
  /\ ~output.ok
  /\ output.image \in sent_images
  /\ output.image \notin load_history(history_file)

\* What a call of the History whose write succeeded returns: None from
\* add_image, the old count from reset_history.
SuccessReturns(e) ==
  IF e = "sent" THEN {NoneValue} ELSE 0..MaxImages

\* C16: a persistence failure inside add or reset surfaces to the caller:
\* a call whose write failed returns what no call whose write succeeded
\* returns.
C16_FailureSurfaces ==
  Saved => (output.ok <=> output.ret \in SuccessReturns(output.e))

\* The record the file holds is whole, its total_count is the length of
\* its images, and no identifier is there twice.
WholeRecord(f) ==
  /\ f.exists
  /\ IsObject(f.text)
  /\ f.text[Len(f.text)].v = Len(ArrayItems(f.text))
  /\ Injective(ArrayItems(f.text))

\* C19: in every record the program has written, total_count is the
\* number of entries of images, and images holds the in-memory History of
\* the time of the write, each identifier once.
C19_RecordAsWritten ==
  /\ (Saved /\ output.ok)
       => /\ WholeRecord(history_file)
          /\ Range(ArrayItems(history_file.text)) = sent_images
  /\ IsObject(history_file.text) => WholeRecord(history_file)

\* add_image has written a record of MaxImages identifiers.
C19_Witness ==
  /\ output.e = "sent"
  /\ output.ok
  /\ WholeRecord(history_file)
  /\ Len(ArrayItems(history_file.text)) = MaxImages

\* C17: every dispatch selects from the pool as the source lists it at
\* the time of the dispatch: what it selects is listed now, and it finds
\* nothing only when nothing listed now is unsent.
C17_PoolRefreshed ==
  /\ output.e \in {"send_photo", "open_failed", "fetch_failed"}
       => output.image \in folder
  /\ output.e = "exhausted" => folder \ sent_images = {}

\* What send_image returns when nothing is unsent (main.py:113-115).
ExhaustedResults == {"False"}

\* C18: the outcome of a dispatch that found the pool exhausted is
\* distinct from the outcome of every other failure: send_image returns
\* for it what it returns for no failed fetch, open or delivery.
C18_ExhaustedDistinct ==
  /\ output.e = "exhausted" => output.result \in ExhaustedResults
  /\ output.e \in {"fetch_failed", "open_failed", "delivery_failed"}
       => output.result \notin ExhaustedResults

\* What C21 says of the state remove_image ends in.
C21_State ==
  /\ output.e \in {"removed", "not_removed"}
       => (output.removed <=> output.image \in output.before)
  /\ output.e = "removed"
       => /\ sent_images = output.before \ {output.image}
          /\ load_history(history_file) = output.before \ {output.image}

\* What C21 says of a call that finds the identifier absent.
C21_Step ==
  output'.e = "not_removed" => UNCHANGED <<sent_images, history_file>>

\* C21: remove_image(id) returns true exactly when id was in the History;
\* id is then absent from the in-memory set and from the record, every
\* other identifier is kept in both; when id was absent it returns false
\* and changes neither the set nor the record.
C21_RemoveImage == []C21_State /\ [][C21_Step]_vars

\* The job queue holds a run of the job to come.
Armed == next_run_in # Unarmed

\* C22: the job is never armed when the configuration is invalid at the
\* start, and an invalid configuration is the only thing at the start
\* that keeps it from being armed.
C22_OnlyConfigInvalid ==
  output.e \in {"started", "config_invalid", "load_images_failed"}
    => (Armed <=> is_valid(START_HOUR, END_HOUR, IMAGE_SOURCE))

\* C27: every configuration is_valid accepts has 0 <= START_HOUR <
\* END_HOUR <= 23, and so no run of the job at hour 23 dispatches.
C27_NoDispatchAtLastHour ==
  /\ (is_valid(START_HOUR, END_HOUR, IMAGE_SOURCE) \/ Armed)
       => 0 <= START_HOUR /\ START_HOUR < END_HOUR /\ END_HOUR <= LAST_HOUR
  /\ output.hour = LAST_HOUR => output.e = "skipped"

\* A run at hour 23 under the latest window accepted, 22 to 23.
C27_Witness ==
  /\ output.hour = LAST_HOUR
  /\ output.e = "skipped"
  /\ END_HOUR = LAST_HOUR
  /\ START_HOUR = LAST_HOUR - 1

\* The identifiers the record held when it was last whole: what a load
\* gives, or gave before the write in progress opened the file.
Durable ==
  IF io.op = "none" THEN load_history(history_file) ELSE io.disk0

\* What C23 says of the step in which the process dies and starts again.
C23_Step ==
  output'.e = "started"
    => /\ \A p \in Procs :
            (pc[p] = "saving" /\ io.op = "add" /\ io.p = p)
              => /\ image_name[p] \notin sent_images'
                 /\ image_name[p] \in Range(available_images)
                      => image_name[p]
                           \in get_random_image(sent_images',
                                                available_images')
       /\ \A i \in Images :
            (i \in Durable /\ i \in sent_images) => i \in sent_images'

\* C23: a crash after the delivery of x and before add_image(x) is
\* persisted leaves x out of the record, so x can be selected and
\* delivered again after the restart; no other crash makes an identifier
\* that was recorded eligible again.
C23_CrashLosesOnlyInFlight == [][C23_Step]_vars

\* C24: for Google Drive, when the delivery succeeded and the removal of
\* the downloaded copy fails, send_image still returns True and the
\* identifier is in the History; the removal is tried only once the
\* History has been updated.
C24_CleanupBestEffort ==
  /\ output.cleanup = "failed"
       => /\ output.result = "True"
          /\ IMAGE_SOURCE = "google_drive"
  /\ output.cleanup # "none"
       => /\ output.e = "sent"
          /\ output.image \in sent_images

\* The removal of the copy failed after a dispatch that recorded its item
\* in the file too.
C24_Witness ==
  /\ output.cleanup = "failed"
  /\ output.e = "sent"
  /\ output.ok
  /\ output.image \in load_history(history_file)

\* What send_image does once it has selected an item.
Dispatched == {"send_photo", "open_failed", "fetch_failed"}

\* What C25 says of a step: a send-now command with an unsent item runs a
\* dispatch of an unsent item, and only a run of the job is skipped.
C25_Step ==
  /\ (/\ output'.p = "upd"
      /\ output'.e \in Dispatched \cup {"nothing_to_send", "exhausted"}
      /\ Unsent # {})
       => /\ output'.e \in Dispatched
          /\ output'.image \in Unsent
  /\ output'.e = "skipped" => output'.p = "job"

\* C25: the working-hours gate applies to the runs of the job only: a
\* send-now command at any hour, also outside the window, runs a dispatch
\* whenever an unsent item exists.
C25_GateOnlyOnTicks ==
  /\ [][C25_Step]_vars
  /\ [](output.e = "skipped" => outside_working_hours(now_hour))

\* A send-now command outside the working hours has selected an item.
C25_Witness ==
  /\ output.p = "upd"
  /\ output.e = "send_photo"
  /\ now_hour \in Hours
  /\ outside_working_hours(now_hour)

\* What C26 says of the step that ends a dispatch of the job during whose
\* send_photo the History was reset, with nothing recorded since.
C26_Step ==
  (/\ output'.e = "sent"
   /\ output'.p = "job"
   /\ snap["job"].reset
   /\ output'.before = {})
    => /\ output'.result = "True"
       /\ sent_images' = {output'.image}
       /\ load_history(history_file') = {output'.image}

\* C26: a reset_history that runs while a dispatch of the job waits for
\* send_photo does not cancel it: when the dispatch ends with success the
\* History is the set of the item in flight alone, in memory and in the
\* record.
C26_ResetDuringDispatch == [][C26_Step]_vars
====
